---------------------------- MODULE Spec2Model ----------------------------
(***************************************************************************)
(* A model of PRNG.h: the xorshift1024* generator, the bounded integer and *)
(* floating-point draws built on it, and the seeding of new instances.     *)
(*                                                                         *)
(* A uint64_t is the tuple of its 64 bits, least significant first (bit k  *)
(* of the word is element k + 1), so that the shifts, the exclusive-ors    *)
(* and the truncating arithmetic of the source keep their 64-bit width.    *)
(* Values of the narrower integer types are carried in the same 64 bits,   *)
(* sign- or zero-extended the way the C++ conversions extend them.         *)
(***************************************************************************)
EXTENDS Integers, Sequences, FiniteSets, TLC

\* std::numeric_limits<uint64_t>::digits
WordBits == 64

\* std::array<uint64_t, 16>
StateWords == 16

Bit == 1..WordBits

Pow2(n) == 2 ^ n

\* ---------------------------------------------------------------------
\* The state
\* ---------------------------------------------------------------------

\* The instances: two, so that one can be compared with another.
Inst == {1, 2}

VARIABLES
    alive,      \* per instance: "none" (not constructed), "live", or
                \* "aborted" (an assertion failed in one of its calls)
    state,      \* per instance: PRNG::state
    position,   \* per instance: PRNG::position
    hist,       \* per instance: the calls made on it since construction
    res,        \* per instance: what each of those calls returned
    origin,     \* per instance: the seed given to its constructor
    forkedAt,   \* per instance: <<j, n>> when its seed was getState() of
                \* instance j after j's n-th call, <<0, 0>> otherwise
    last        \* the last call made: the instance, the state and position
                \* before it, and the raw draws it took

genVars == <<alive, state, position, hist, res, origin, forkedAt, last>>

VARIABLES
    lpc,        \* "idle", "loop" (inside the do-while), "done" (about to
                \* return randomInt) or "aborted" (assert(maxValue != 0) failed)
    lMax,       \* maxValue
    lZeros,     \* leadingZeros
    lRaw,       \* what xorshift1024() returned in the last iteration
    lRandomInt, \* randomInt
    lDraws      \* the iterations of this call so far, up to MaxLoopDraws

loopVars == <<lpc, lMax, lZeros, lRaw, lRandomInt, lDraws>>

VARIABLES
    uintDigits, \* std::numeric_limits<unsigned int>::digits of the build
    spc,        \* per thread: "start", "seeding" (holds the lock, inside
                \* the loop) or "done"
    rngMutex,   \* the thread that holds rngMutex, 0 when it is free
    rdCalls,    \* the calls of rd() made so far
    sWord,      \* per thread: the index of the state word being filled
    sPart,      \* per thread: the calls of rd() made for that word
    sState,     \* per thread: the state of the PRNG under construction
    sPosition,  \* per thread: its position
    drawn       \* per thread: the numbers of the outputs of rd() it took

seedVars ==
    <<uintDigits, spc, rngMutex, rdCalls, sWord, sPart, sState, sPosition, drawn>>

VARIABLES
    cVariant,   \* the variant of countLeadingZeros64 that was applied,
                \* "none" before
    cIn,        \* toCount
    cOut        \* what the variant returned

clzVars == <<cVariant, cIn, cOut>>

vars ==
    <<alive, state, position, hist, res, origin, forkedAt, last,
      lpc, lMax, lZeros, lRaw, lRandomInt, lDraws,
      uintDigits, spc, rngMutex, rdCalls, sWord, sPart, sState, sPosition, drawn,
      cVariant, cIn, cOut>>

\* ---------------------------------------------------------------------
\* 64-bit words
\* ---------------------------------------------------------------------

\* The tuple of the bits f[1], ..., f[64].
Word(f) == f \o <<>>

Zero64 == Word([i \in Bit |-> 0])

Ones64 == Word([i \in Bit |-> 1])

\* The word whose value is the natural number n (n < 2^31).
FromNat(n) == Word([i \in Bit |-> IF i < 32 THEN (n \div Pow2(i - 1)) % 2 ELSE 0])

\* The word 0x<h3><h2><h1><h0>, each h a 16-bit group of the literal.
Hex64(h3, h2, h1, h0) ==
    Word([i \in Bit |->
        LET h == CASE (i - 1) \div 16 = 0 -> h0
                   [] (i - 1) \div 16 = 1 -> h1
                   [] (i - 1) \div 16 = 2 -> h2
                   [] OTHER -> h3
        IN  (h \div Pow2((i - 1) % 16)) % 2])

\* a ^ b
Xor64(a, b) == Word([i \in Bit |-> (a[i] + b[i]) % 2])

\* a | b
Or64(a, b) == Word([i \in Bit |-> IF a[i] + b[i] > 0 THEN 1 ELSE 0])

\* a << k, the bits shifted out at the top are lost
Shl64(a, k) == Word([i \in Bit |-> IF i > k THEN a[i - k] ELSE 0])

\* a >> k on an unsigned word: zeros come in at the top
Shr64(a, k) == Word([i \in Bit |-> IF i + k <= WordBits THEN a[i + k] ELSE 0])

\* ~a
Not64(a) == Word([i \in Bit |-> 1 - a[i]])

\* The bytes of a word, least significant first, each a number in 0..255:
\* the arithmetic of the word is done on them.
Bytes(a) ==
    [j \in 1..8 |->
        LET o == 8 * (j - 1)
        IN  a[o + 1] + 2 * a[o + 2] + 4 * a[o + 3] + 8 * a[o + 4]
              + 16 * a[o + 5] + 32 * a[o + 6] + 64 * a[o + 7] + 128 * a[o + 8]] \o <<>>

\* The word of eight bytes, least significant first.
FromBytes(bs) ==
    Word([i \in Bit |-> (bs[((i - 1) \div 8) + 1] \div Pow2((i - 1) % 8)) % 2])

\* The bytes of x + y + carry, the carry out of the top byte lost.
RECURSIVE AddFrom(_, _, _, _, _)
AddFrom(x, y, j, carry, acc) ==
    IF j > 8 THEN acc
    ELSE LET s == x[j] + y[j] + carry
         IN  AddFrom(x, y, j + 1, s \div 256, Append(acc, s % 256))

\* a + b modulo 2^64
Add64(a, b) == FromBytes(AddFrom(Bytes(a), Bytes(b), 1, 0, <<>>))

\* a - b modulo 2^64 (a + ~b + 1)
Sub64(a, b) == FromBytes(AddFrom(Bytes(a), Bytes(Not64(b)), 1, 1, <<>>))

\* The sum of the byte products x_j * y_(k+1-j) that make byte k of x * y.
RECURSIVE ColumnSum(_, _, _, _)
ColumnSum(x, y, k, j) ==
    IF j > k THEN 0 ELSE x[j] * y[k + 1 - j] + ColumnSum(x, y, k, j + 1)

RECURSIVE MulFrom(_, _, _, _, _)
MulFrom(x, y, k, carry, acc) ==
    IF k > 8 THEN acc
    ELSE LET s == ColumnSum(x, y, k, 1) + carry
         IN  MulFrom(x, y, k + 1, s \div 256, Append(acc, s % 256))

\* a * b modulo 2^64 (the truncating multiplication of uint64_t)
Mul64(a, b) == FromBytes(MulFrom(Bytes(a), Bytes(b), 1, 0, <<>>))

RECURSIVE LessFrom(_, _, _)
LessFrom(x, y, j) ==
    IF j < 1 THEN FALSE
    ELSE IF x[j] # y[j] THEN x[j] < y[j]
    ELSE LessFrom(x, y, j - 1)

\* a < b as unsigned 64-bit values
LessU(a, b) == LessFrom(Bytes(a), Bytes(b), 8)

\* a < b as two's-complement signed 64-bit values
LessS(a, b) ==
    IF a[WordBits] # b[WordBits]
    THEN a[WordBits] > b[WordBits]
    ELSE LessU(a, b)

\* ---------------------------------------------------------------------
\* The bit engine
\* ---------------------------------------------------------------------

\* 1181783497276652981LL = 0x106689d45497fdb5
Multiplier == Hex64(4198, 35284, 21655, 64949)

\* xorshift1024 with state1 <<= 31 in place of state1 ^= state1 << 31
xorshift1024ShiftOnly(st, pos) ==
    LET state0  == st[pos]
        newPos  == (pos + 1) % StateWords
        state1  == st[newPos]
        state1a == Shl64(state1, 31)
        state1b == Xor64(state1a, Shr64(state1a, 11))
        state0a == Xor64(state0, Shr64(state0, 30))
        stored  == Xor64(state0a, state1b)
    IN  [value    |-> Mul64(stored, Multiplier),
         state    |-> [st EXCEPT ![newPos] = stored],
         position |-> newPos]

\* xorshift1024 with the shift by 11 applied to state1 as it was read, not
\* to state1 after its shift by 31
xorshift1024StaleShift(st, pos) ==
    LET state0  == st[pos]
        newPos  == (pos + 1) % StateWords
        state1  == st[newPos]
        state1a == Xor64(state1, Shl64(state1, 31))
        state1b == Xor64(state1a, Shr64(state1, 11))
        state0a == Xor64(state0, Shr64(state0, 30))
        stored  == Xor64(state0a, state1b)
    IN  [value    |-> Mul64(stored, Multiplier),
         state    |-> [st EXCEPT ![newPos] = stored],
         position |-> newPos]

\* PRNG::xorshift1024 from (state, position): the value returned and the
\* state and position it leaves.
xorshift1024(st, pos) ==
    LET state0  == st[pos]
        newPos  == (pos + 1) % StateWords
        state1  == st[newPos]
        state1a == Xor64(state1, Shl64(state1, 31))
        state1b == Xor64(state1a, Shr64(state1a, 11))
        state0a == Xor64(state0, Shr64(state0, 30))
        stored  == Xor64(state0a, state1b)
    IN  [value    |-> Mul64(stored, Multiplier),
         state    |-> [st EXCEPT ![newPos] = stored],
         position |-> newPos]

\* ---------------------------------------------------------------------
\* Seeds
\* ---------------------------------------------------------------------

WordIndex == 0..(StateWords - 1)

\* The seed of PRNGTest::SetUp.
TestSeed ==
    [w \in WordIndex |->
        CASE w = 0  -> Hex64(14155, 57966, 58143, 7800)
          [] w = 1  -> Hex64(54510, 62356, 63279, 5275)
          [] w = 2  -> Hex64(37323, 23152, 262, 35979)
          [] w = 3  -> Hex64(29070, 63170, 48734, 64487)
          [] w = 4  -> Hex64(47885, 55619, 38400, 36208)
          [] w = 5  -> Hex64(20233, 38609, 52594, 53976)
          [] w = 6  -> Hex64(9241, 46926, 2873, 59827)
          [] w = 7  -> Hex64(3494, 37839, 20705, 14702)
          [] w = 8  -> Hex64(51948, 3711, 19630, 32762)
          [] w = 9  -> Hex64(13579, 25572, 29049, 22470)
          [] w = 10 -> Hex64(48772, 24600, 24038, 32988)
          [] w = 11 -> Hex64(65304, 51104, 61372, 60454)
          [] w = 12 -> Hex64(65306, 29371, 3241, 44159)
          [] w = 13 -> Hex64(15176, 6368, 17944, 33112)
          [] w = 14 -> Hex64(51907, 58144, 8970, 17594)
          [] OTHER  -> Hex64(51961, 21575, 16635, 53896)]

\* The seed 1, 2, ..., 16.
CountSeed == [w \in WordIndex |-> FromNat(w + 1)]

\* The seed whose 16 words are all 9.
RepeatSeed == [w \in WordIndex |-> FromNat(9)]

\* The seed whose 16 words are all 0: std::array<uint64_t, 16>{}.
ZeroSeed == [w \in WordIndex |-> Zero64]

Seeds == {TestSeed, CountSeed, RepeatSeed, ZeroSeed}

\* The seed whose 16 words are all 0xffffffffffffffff.
OnesSeed == [w \in WordIndex |-> Ones64]

\* The seed with one bit set: the highest bit of its third word.
TopBitSeed ==
    [w \in WordIndex |-> IF w = 2 THEN Shl64(FromNat(1), 63) ELSE Zero64]

\* ---------------------------------------------------------------------
\* Integer types
\* ---------------------------------------------------------------------

\* The integer types of the public draws, with the widths of an LP64 build
\* where char is signed.
IntTypes ==
    {"char", "unsigned char", "int", "unsigned int",
     "long long", "unsigned long long", "uint64_t"}

\* std::numeric_limits<T>::digits plus the sign bit
TypeBits(T) ==
    CASE T \in {"char", "unsigned char"} -> 8
      [] T \in {"int", "unsigned int"} -> 32
      [] OTHER -> 64

\* std::numeric_limits<T>::is_signed
IsSigned(T) == T \in {"char", "int", "long long"}

\* The type in which T's arithmetic is done: the integer promotions take
\* the types narrower than int to int.
Promoted(T) == IF TypeBits(T) < 32 THEN "int" ELSE T

\* static_cast<T>(v): the low TypeBits(T) bits of v, carried in 64 bits
\* sign-extended when T is signed and zero-extended when it is not.
Cast(T, v) ==
    Word([i \in Bit |->
        IF i <= TypeBits(T) THEN v[i]
        ELSE IF IsSigned(T) THEN v[TypeBits(T)] ELSE 0])

\* a < b for values of type T
LessT(T, a, b) == IF IsSigned(T) THEN LessS(a, b) ELSE LessU(a, b)

\* The value n of a small integer literal (|n| < 2^31)
FromInt(n) == IF n >= 0 THEN FromNat(n) ELSE Sub64(Zero64, FromNat(0 - n))

\* ---------------------------------------------------------------------
\* Bounded integer draws
\* ---------------------------------------------------------------------

\* countLeadingZeros64 counting one bit too many
CountLeadingZerosOneMore(toCount) ==
    LET highest == CHOOSE i \in Bit :
                       toCount[i] = 1 /\ \A j \in Bit : toCount[j] = 1 => j <= i
    IN  WordBits - highest + 1

\* PRNG::countLeadingZeros64, the __GNUC__ variant: __builtin_clzll counts
\* the zero bits above the highest set bit of a nonzero word.
countLeadingZeros64(toCount) ==
    LET highest == CHOOSE i \in Bit :
                       toCount[i] = 1 /\ \A j \in Bit : toCount[j] = 1 => j <= i
    IN  WordBits - highest

\* The number a word with no bit above the six lowest stands for.
SmallNat(w) ==
    w[1] + 2 * w[2] + 4 * w[3] + 8 * w[4] + 16 * w[5] + 32 * w[6]

\* The digits of the unsigned int that the intrinsic __lzcnt takes.
LzcntBits == 32

\* The _MSC_VER variant: __lzcnt(toCount).  __lzcnt is the intrinsic
\* unsigned int __lzcnt(unsigned int): toCount is converted to unsigned
\* int, which keeps its LzcntBits lowest bits, and the zero bits above the
\* highest set bit of those are counted, LzcntBits of them when none is
\* set.
countLeadingZerosMsvc(toCount) ==
    LET set == {i \in 1..LzcntBits : toCount[i] = 1}
    IN  IF set = {} THEN LzcntBits
        ELSE LzcntBits - (CHOOSE i \in set : \A j \in set : j <= i)

\* static const int clz64Index[64]
clz64Index ==
    <<63, 16, 62,  7, 15, 36, 61,  3,
       6, 14, 22, 26, 35, 47, 60,  2,
       9,  5, 28, 11, 13, 21, 42, 19,
      25, 31, 34, 40, 46, 52, 59,  1,
      17,  8, 37,  4, 23, 27, 48, 10,
      29, 12, 43, 20, 32, 41, 53, 18,
      38, 24, 49, 30, 44, 33, 54, 39,
      50, 45, 55, 51, 56, 57, 58,  0>>

\* 0x03f79d71b4cb0a89ULL
DeBruijn64 == Hex64(1015, 40305, 46283, 2697)

\* bitset |= bitset >> k
Smear(bitset, k) == Or64(bitset, Shr64(bitset, k))

\* The variant of the other compilers: the bits below the highest set bit
\* are set, and the product by the de Bruijn constant, shifted right by
\* 58, is the index into clz64Index (an array: indices from 0).
countLeadingZerosFallback(toCount) ==
    LET bitset == Smear(Smear(Smear(Smear(Smear(Smear(toCount, 1), 2), 4), 8), 16), 32)
    IN  clz64Index[SmallNat(Shr64(Mul64(bitset, DeBruijn64), 58)) + 1]

\* The three variants the preprocessor chooses from.
ClzVariants == {"gnuc", "msvc", "other"}

\* The words of toCount: for every bit, the words that have it as their
\* highest set bit with the bits below it all clear, all set, and
\* alternating.
ClzInputs ==
    {Word([i \in Bit |->
        IF i > h THEN 0
        ELSE IF i = h THEN 1
        ELSE CASE fill = "zeros" -> 0
               [] fill = "ones" -> 1
               [] OTHER -> i % 2]) : h \in Bit, fill \in {"zeros", "ones", "mixed"}}

ClzInit ==
    /\ cVariant = "none"
    /\ cIn = Zero64
    /\ cOut = 0

\* countLeadingZeros64(cIn) in the build of one variant.
ClzApply(variant) ==
    /\ cVariant = "none"
    /\ cVariant' = variant
    /\ cOut' = CASE variant = "gnuc" -> countLeadingZeros64(cIn)
                 [] variant = "msvc" -> countLeadingZerosMsvc(cIn)
                 [] OTHER -> countLeadingZerosFallback(cIn)
    /\ UNCHANGED <<cIn, genVars, loopVars, seedVars>>

\* What a floating-point result adds to the integer `value` of an outcome:
\* the result is value * 2^(-digits) * scale + offset.  On an integer
\* result all three are 0.
NoReal == [digits |-> 0, scale |-> 0, offset |-> 0]

\* The outcome of a call: whether an assertion ended it, the value returned,
\* the state and position it leaves and the raw draws it took.
Outcome(aborted, value, st, pos, draws) ==
    [aborted |-> aborted, value |-> value, real |-> NoReal,
     state |-> st, position |-> pos, draws |-> draws]

\* The loop condition inverted: randomInt <= maxValue
RejectedInverted(randomInt, maxValue) == ~LessU(maxValue, randomInt)

\* The loop condition of getRandomUint64(maxValue): randomInt > maxValue
Rejected(randomInt, maxValue) == LessU(maxValue, randomInt)

\* The loop body run once, whatever the draw: the rejection left out
AcceptFirstDraw(st, pos, maxValue, leadingZeros, draws) ==
    LET r == xorshift1024(st, pos)
    IN  Outcome(FALSE, Shr64(r.value, leadingZeros), r.state, r.position, draws + 1)

\* The do-while loop of getRandomUint64(maxValue) from (st, pos), after
\* `draws` rejected draws.
RECURSIVE RejectionLoop(_, _, _, _, _)
RejectionLoop(st, pos, maxValue, leadingZeros, draws) ==
    LET r         == xorshift1024(st, pos)
        randomInt == Shr64(r.value, leadingZeros)
    IN  IF Rejected(randomInt, maxValue)
        THEN RejectionLoop(r.state, r.position, maxValue, leadingZeros, draws + 1)
        ELSE Outcome(FALSE, randomInt, r.state, r.position, draws + 1)

\* PRNG::getRandomUint64(const uint64_t &maxValue)
getRandomUint64Max(st, pos, maxValue) ==
    IF maxValue = Zero64
    THEN Outcome(TRUE, Zero64, st, pos, 0)
    ELSE RejectionLoop(st, pos, maxValue, countLeadingZeros64(maxValue), 0)

\* PRNG::getRandomIntType(const T &maxValue)
getRandomIntTypeMax(T, st, pos, maxValue) ==
    LET r == getRandomUint64Max(st, pos, maxValue)
    IN  [r EXCEPT !.value = Cast(T, r.value)]

\* The values `static_cast<uint64_t>(maxValue - minValue)` can take.  The
\* subtraction is done in Promoted(T).  When its result does not fit a signed
\* Promoted(T) the behaviour is undefined: a build either wraps the
\* difference to the width of Promoted(T) before widening it, or widens the
\* operands first and keeps the exact difference.
RangeOutcomes(T, minValue, maxValue) ==
    {Cast(Promoted(T), Sub64(maxValue, minValue))}
        \cup (IF IsSigned(Promoted(T)) THEN {Sub64(maxValue, minValue)} ELSE {})

\* getRandomIntType(minValue, maxValue) with assert(minValue < maxValue)
\* after the draw instead of before it
getRandomIntTypeRangeLateAssert(T, st, pos, minValue, maxValue, range) ==
    LET r == getRandomUint64Max(st, pos, range)
    IN  IF r.aborted \/ ~LessT(T, minValue, maxValue)
        THEN Outcome(TRUE, Zero64, r.state, r.position, r.draws)
        ELSE [r EXCEPT !.value = Cast(T, Add64(Cast(T, r.value), minValue))]

\* PRNG::getRandomIntType(const T &minValue, const T &maxValue), with
\* `range` one of RangeOutcomes(T, minValue, maxValue)
getRandomIntTypeRange(T, st, pos, minValue, maxValue, range) ==
    IF ~LessT(T, minValue, maxValue)
    THEN Outcome(TRUE, Zero64, st, pos, 0)
    ELSE LET r    == getRandomUint64Max(st, pos, range)
             rand == Cast(T, r.value)
         IN  IF r.aborted THEN r
             ELSE [r EXCEPT !.value = Cast(T, Add64(rand, minValue))]

\* static_cast<T>(xorshift1024()): the draws without arguments
getRandomFull(T, st, pos) ==
    LET r == xorshift1024(st, pos)
    IN  Outcome(FALSE, Cast(T, r.value), r.state, r.position, 1)

\* ---------------------------------------------------------------------
\* Floating-point draws
\* ---------------------------------------------------------------------

FloatTypes == {"float", "double", "long double"}

\* std::numeric_limits<T>::digits (long double: the x87 extended format)
FloatDigits(T) ==
    CASE T = "float" -> 24
      [] T = "double" -> 53
      [] OTHER -> 64

\* std::abs
Abs(x) == IF x < 0 THEN 0 - x ELSE x

\* getRandomFloatType<T>() keeping all the digits of T: digitsToKeep without
\* its "- 1"
getRandomFloatTypeAllDigits(T, st, pos) ==
    LET digitsToKeep == FloatDigits(T)
        digitsToLose == WordBits - digitsToKeep
        r            == xorshift1024(st, pos)
    IN  [Outcome(FALSE, Shr64(r.value, digitsToLose), r.state, r.position, 1)
            EXCEPT !.real = [digits |-> FloatDigits(T) - 1, scale |-> 1, offset |-> 0]]

\* PRNG::getRandomFloatType<T>(): (xorshift1024() >> digitsToLose) * epsilon
\* with epsilon = 2^(-digitsToKeep)
getRandomFloatType(T, st, pos) ==
    LET digitsToKeep == FloatDigits(T) - 1
        digitsToLose == WordBits - digitsToKeep
        r            == xorshift1024(st, pos)
    IN  [Outcome(FALSE, Shr64(r.value, digitsToLose), r.state, r.position, 1)
            EXCEPT !.real = [digits |-> digitsToKeep, scale |-> 1, offset |-> 0]]

\* PRNG::getRandomFloatType(const T &maxValue)
getRandomFloatTypeMax(T, st, pos, maxValue) ==
    LET r == getRandomFloatType(T, st, pos)
    IN  [r EXCEPT !.real.scale = r.real.scale * maxValue]

\* PRNG::getRandomFloatType(const T &minValue, const T &maxValue)
getRandomFloatTypeRange(T, st, pos, minValue, maxValue) ==
    LET range == Abs(maxValue - minValue)
        r     == getRandomFloatTypeMax(T, st, pos, range)
    IN  [r EXCEPT !.real.offset = r.real.offset + minValue]

\* ---------------------------------------------------------------------
\* Generator instances
\* ---------------------------------------------------------------------

\* The most calls made on one instance.
MaxOps == 2

\* A call: the operation, the type it is instantiated for, its integer
\* arguments (words), its floating-point arguments (small integers) and,
\* for setSeed, the seed (<<>> for the other calls).
CallOf(op, T, a, b, fa, fb) ==
    [op |-> op, type |-> T, a |-> a, b |-> b, fa |-> fa, fb |-> fb, seed |-> <<>>]

\* A result: no value when an assertion ended the call.
ResultOf(out) == [aborted |-> out.aborted, value |-> out.value, real |-> out.real]

NoLast == [inst |-> 0, preState |-> TestSeed, prePosition |-> 0, draws |-> 0]

GenInit ==
    /\ alive = [i \in Inst |-> "none"]
    /\ state = [i \in Inst |-> TestSeed]
    /\ position = [i \in Inst |-> 0]
    /\ hist = [i \in Inst |-> <<>>]
    /\ res = [i \in Inst |-> <<>>]
    /\ origin = [i \in Inst |-> TestSeed]
    /\ forkedAt = [i \in Inst |-> <<0, 0>>]
    /\ last = NoLast

\* Instance i can take one more call.
CanCall(i) == alive[i] = "live" /\ Len(hist[i]) < MaxOps

\* Instance i has made call c with outcome out.  A failed assertion ends
\* the program (abort()): no further call is made on the instance.
Finish(i, c, out) ==
    /\ state' = [state EXCEPT ![i] = out.state]
    /\ position' = [position EXCEPT ![i] = out.position]
    /\ alive' = [alive EXCEPT ![i] = IF out.aborted THEN "aborted" ELSE "live"]
    /\ hist' = [hist EXCEPT ![i] = Append(@, c)]
    /\ res' = [res EXCEPT ![i] = Append(@, ResultOf(out))]
    /\ last' = [inst |-> i, preState |-> state[i], prePosition |-> position[i],
                draws |-> out.draws]
    /\ UNCHANGED <<origin, forkedAt, loopVars, seedVars, clzVars>>

\* The constructor without position(0): position is left indeterminate
ConstructNoPosition(i, seed) ==
    /\ alive[i] = "none"
    /\ alive' = [alive EXCEPT ![i] = "live"]
    /\ state' = [state EXCEPT ![i] = seed]
    /\ \E p \in WordIndex : position' = [position EXCEPT ![i] = p]
    /\ origin' = [origin EXCEPT ![i] = seed]
    /\ UNCHANGED <<hist, res, forkedAt, last, loopVars, seedVars, clzVars>>

\* PRNG::PRNG(const std::array<uint64_t, 16> &seed)
Construct(i, seed) ==
    /\ alive[i] = "none"
    /\ alive' = [alive EXCEPT ![i] = "live"]
    /\ state' = [state EXCEPT ![i] = seed]
    /\ position' = [position EXCEPT ![i] = 0]
    /\ origin' = [origin EXCEPT ![i] = seed]
    /\ UNCHANGED <<hist, res, forkedAt, last, loopVars, seedVars, clzVars>>

\* PRNG h(g.getState()): instance i constructed from the state of the live
\* instance j
ConstructFromState(i, j) ==
    /\ i # j
    /\ alive[i] = "none"
    /\ alive[j] = "live"
    /\ alive' = [alive EXCEPT ![i] = "live"]
    /\ state' = [state EXCEPT ![i] = state[j]]
    /\ position' = [position EXCEPT ![i] = 0]
    /\ origin' = [origin EXCEPT ![i] = state[j]]
    /\ forkedAt' = [forkedAt EXCEPT ![i] = <<j, Len(hist[j])>>]
    /\ UNCHANGED <<hist, res, last, loopVars, seedVars, clzVars>>

\* PRNG::setSeed
SetSeed(i, seed) ==
    /\ CanCall(i)
    /\ Finish(i, [CallOf("setSeed", "none", Zero64, Zero64, 0, 0) EXCEPT !.seed = seed],
              Outcome(FALSE, Zero64, seed, position[i], 0))

\* getRandomChar(), getRandomInt(), ..., getRandomUint64()
GetRandomFull(i, T) ==
    /\ CanCall(i)
    /\ Finish(i, CallOf("full", T, Zero64, Zero64, 0, 0),
              getRandomFull(T, state[i], position[i]))

\* getRandomUint64(maxValue)
GetRandomUint64Max(i, maxValue) ==
    /\ CanCall(i)
    /\ Finish(i, CallOf("uint64Max", "uint64_t", Zero64, maxValue, 0, 0),
              getRandomUint64Max(state[i], position[i], maxValue))

\* getRandomUnsignedChar(maxValue), getRandomUnsignedInt(maxValue), ...
GetRandomIntMax(i, T, maxValue) ==
    /\ CanCall(i)
    /\ Finish(i, CallOf("intMax", T, Zero64, maxValue, 0, 0),
              getRandomIntTypeMax(T, state[i], position[i], maxValue))

\* getRandomChar(minValue, maxValue), getRandomInt(minValue, maxValue), ...
GetRandomIntRange(i, T, minValue, maxValue) ==
    /\ CanCall(i)
    /\ \E range \in RangeOutcomes(T, minValue, maxValue) :
          Finish(i, CallOf("intRange", T, minValue, maxValue, 0, 0),
                 getRandomIntTypeRange(T, state[i], position[i],
                                       minValue, maxValue, range))

\* getRandomFloat(), getRandomDouble(), getRandomLongDouble()
GetRandomFloat(i, T) ==
    /\ CanCall(i)
    /\ Finish(i, CallOf("float", T, Zero64, Zero64, 0, 0),
              getRandomFloatType(T, state[i], position[i]))

\* getRandomFloat(maxValue), ...
GetRandomFloatMax(i, T, maxValue) ==
    /\ CanCall(i)
    /\ Finish(i, CallOf("floatMax", T, Zero64, Zero64, 0, maxValue),
              getRandomFloatTypeMax(T, state[i], position[i], maxValue))

\* getRandomFloat(minValue, maxValue), ...
GetRandomFloatRange(i, T, minValue, maxValue) ==
    /\ CanCall(i)
    /\ Finish(i, CallOf("floatRange", T, Zero64, Zero64, minValue, maxValue),
              getRandomFloatTypeRange(T, state[i], position[i], minValue, maxValue))

\* ---------------------------------------------------------------------
\* The rejection loop, one iteration at a time
\* ---------------------------------------------------------------------
\* getRandomUint64(maxValue) with its loop unrolled into steps.  The raw
\* draw of an iteration is any of RawSamples: the loop is followed for
\* every value xorshift1024() may return, not for the values one seed
\* gives.

\* The raw draws are told apart by their TopBits highest bits.
TopBits == 3

\* The saturation point of the count of draws of one call.
MaxLoopDraws == 2

TopValues == 0..(Pow2(TopBits) - 1)

\* The bits below the TopBits highest: all clear, all set, alternating.
Fills == {"zeros", "ones", "mixed"}

\* The raw draw whose TopBits highest bits spell t and whose other bits
\* follow `fill`.
RawOf(t, fill) ==
    Word([i \in Bit |->
        IF i > WordBits - TopBits
        THEN (t \div Pow2(i - 1 - (WordBits - TopBits))) % 2
        ELSE CASE fill = "zeros" -> 0
               [] fill = "ones" -> 1
               [] OTHER -> i % 2])

RawSamples == {RawOf(t, fill) : t \in TopValues, fill \in Fills}

\* std::numeric_limits<uint64_t>::max() / 4 * 3, the bound of test_large_uniform
LargeLimit == Hex64(49151, 65535, 65535, 65533)

\* 2^63
HighBit == Hex64(32768, 0, 0, 0)

\* The bounds the loop is called with: 0 (the assertion fails), every bound
\* below 2^TopBits, and bounds that use all 64 bits.
LoopBounds ==
    {FromNat(n) : n \in TopValues} \cup {Ones64, LargeLimit, HighBit}

LoopInit ==
    /\ lpc = "idle"
    /\ lMax = Zero64
    /\ lZeros = 0
    /\ lRaw = Zero64
    /\ lRandomInt = Zero64
    /\ lDraws = 0

\* The call: assert(maxValue != 0), then leadingZeros is computed.
LoopCall(maxValue) ==
    /\ lpc = "idle"
    /\ lMax' = maxValue
    /\ lRaw' = Zero64
    /\ lRandomInt' = Zero64
    /\ lDraws' = 0
    /\ IF maxValue = Zero64
       THEN lpc' = "aborted" /\ lZeros' = 0
       ELSE lpc' = "loop" /\ lZeros' = countLeadingZeros64(maxValue)
    /\ UNCHANGED <<genVars, seedVars, clzVars>>

\* One iteration: randomInt = xorshift1024() >> leadingZeros, then the test
\* of the loop condition.
LoopIterate(raw) ==
    /\ lpc = "loop"
    /\ lRaw' = raw
    /\ lRandomInt' = Shr64(raw, lZeros)
    /\ lDraws' = IF lDraws < MaxLoopDraws THEN lDraws + 1 ELSE lDraws
    /\ lpc' = IF Rejected(lRandomInt', lMax) THEN "loop" ELSE "done"
    /\ UNCHANGED <<lMax, lZeros, genVars, seedVars, clzVars>>

\* return randomInt: the locals of the call are gone.
LoopReturn ==
    /\ lpc = "done"
    /\ lpc' = "idle"
    /\ lMax' = Zero64
    /\ lZeros' = 0
    /\ lRaw' = Zero64
    /\ lRandomInt' = Zero64
    /\ lDraws' = 0
    /\ UNCHANGED <<genVars, seedVars, clzVars>>

\* An iteration whose draw is accepted.
LoopAccept ==
    /\ lpc = "loop"
    /\ lpc' = "done"
    /\ \E raw \in RawSamples : LoopIterate(raw)

\* ---------------------------------------------------------------------
\* Default construction: seeding from std::random_device
\* ---------------------------------------------------------------------
\* Each thread default-constructs one PRNG.  The words being assembled are
\* symbolic: a bit of a word is <<n, b>> when it is bit b (1 the least
\* significant) of the n-th output of the random device, and <<0, 0>> when
\* it is a constant zero.  <<-1, -1>> is a bit that two outputs were or-ed
\* into.

\* The threads constructing a PRNG at the same time.
NumThreads == 2

Threads == 1..NumThreads

\* The widths std::numeric_limits<unsigned int>::digits is modelled for:
\* one for each branch of the constructor.
UintDigitsCases == {16, 32, 64}

ZeroBit == <<0, 0>>

MixedBit == <<-1, -1>>

SymZero == Word([i \in Bit |-> ZeroBit])

\* static_cast<uint64_t>(rd()) for the n-th call of rd(), an unsigned int of
\* `digits` bits
RdOutput(n, digits) ==
    Word([i \in Bit |-> IF i <= digits THEN <<n, i>> ELSE ZeroBit])

\* The operands of the three operators below are bound once, as x and y,
\* so that an operand is evaluated once and not once for each bit.

\* w & mask, for the mask of the `low` lowest bits (0xffff: 16, ...)
SymMask(w, low) ==
    CHOOSE r \in {Word([i \in Bit |-> IF i <= low THEN x[i] ELSE ZeroBit]) :
                      x \in {w}} : TRUE

\* w << k
SymShl(w, k) ==
    CHOOSE r \in {Word([i \in Bit |-> IF i > k THEN x[i - k] ELSE ZeroBit]) :
                      x \in {w}} : TRUE

\* a | b
SymOr(a, b) ==
    CHOOSE r \in {Word([i \in Bit |->
                      IF x[i] = ZeroBit THEN y[i]
                      ELSE IF y[i] = ZeroBit THEN x[i]
                      ELSE MixedBit]) : x \in {a}, y \in {b}} : TRUE

\* Four calls of rd() for a state word, whatever the width
PartsPerWordAlwaysFour(digits) == 4

\* The calls of rd() one state word takes.
PartsPerWord(digits) ==
    IF digits >= 64 THEN 1 ELSE IF digits >= 32 THEN 2 ELSE 4

\* The loop body with the second output of a 32-bit device or-ed in
\* without its shift by 32
AssembleWordNoShift(s, part, out, digits) ==
    IF digits >= 64 THEN out
    ELSE IF digits >= 32
    THEN CASE part = 0 -> SymMask(out, 32)
           [] OTHER -> SymOr(s, out)
    ELSE CASE part = 0 -> SymMask(out, 16)
           [] part = 1 -> SymOr(s, SymMask(SymShl(out, 16), 32))
           [] part = 2 -> SymOr(s, SymMask(SymShl(out, 32), 48))
           [] OTHER -> SymOr(s, SymShl(out, 48))

\* The statement of the loop body that makes call number `part` (0 the
\* first) of rd() for the word s, with out = static_cast<uint64_t>(rd()).
AssembleWord(s, part, out, digits) ==
    IF digits >= 64 THEN out
    ELSE IF digits >= 32
    THEN CASE part = 0 -> SymMask(out, 32)
           [] OTHER -> SymOr(s, SymShl(out, 32))
    ELSE CASE part = 0 -> SymMask(out, 16)
           [] part = 1 -> SymOr(s, SymMask(SymShl(out, 16), 32))
           [] part = 2 -> SymOr(s, SymMask(SymShl(out, 32), 48))
           [] OTHER -> SymOr(s, SymShl(out, 48))

SeedInit ==
    /\ spc = [t \in Threads |-> "start"]
    /\ rngMutex = 0
    /\ rdCalls = 0
    /\ sWord = [t \in Threads |-> 0]
    /\ sPart = [t \in Threads |-> 0]
    /\ sState = [t \in Threads |-> [w \in WordIndex |-> SymZero]]
    /\ sPosition = [t \in Threads |-> 0]
    /\ drawn = [t \in Threads |-> <<>>]

\* The constructor entering the loop without waiting for rngMutex
SeedLockNoWait(t) ==
    /\ spc[t] = "start"
    /\ rngMutex' = t
    /\ spc' = [spc EXCEPT ![t] = "seeding"]
    /\ sPosition' = [sPosition EXCEPT ![t] = 0]
    /\ UNCHANGED <<uintDigits, rdCalls, sWord, sPart, sState, drawn, genVars, loopVars, clzVars>>

\* PRNG() : position(0), then std::lock_guard<std::mutex> lock(rngMutex):
\* the thread goes on when the mutex is free, and takes it.
SeedLock(t) ==
    /\ spc[t] = "start"
    /\ rngMutex = 0
    /\ rngMutex' = t
    /\ spc' = [spc EXCEPT ![t] = "seeding"]
    /\ sPosition' = [sPosition EXCEPT ![t] = 0]
    /\ UNCHANGED <<uintDigits, rdCalls, sWord, sPart, sState, drawn, genVars, loopVars, clzVars>>

\* One statement of the loop body: one call of rd() and what is done with
\* its output.
SeedDraw(t) ==
    /\ spc[t] = "seeding"
    /\ sWord[t] < StateWords
    /\ LET n    == rdCalls + 1
           s    == AssembleWord(sState[t][sWord[t]], sPart[t],
                                RdOutput(n, uintDigits), uintDigits)
           last_ == sPart[t] + 1 = PartsPerWord(uintDigits)
       IN  /\ rdCalls' = n
           /\ drawn' = [drawn EXCEPT ![t] = Append(@, n)]
           /\ sState' = [sState EXCEPT ![t][sWord[t]] = s]
           /\ sPart' = [sPart EXCEPT ![t] = IF last_ THEN 0 ELSE @ + 1]
           /\ sWord' = [sWord EXCEPT ![t] = IF last_ THEN @ + 1 ELSE @]
    /\ UNCHANGED <<uintDigits, spc, rngMutex, sPosition, genVars, loopVars, clzVars>>

\* The end of the constructor: the lock_guard releases rngMutex.
SeedUnlock(t) ==
    /\ spc[t] = "seeding"
    /\ sWord[t] = StateWords
    /\ rngMutex' = 0
    /\ spc' = [spc EXCEPT ![t] = "done"]
    /\ UNCHANGED <<uintDigits, rdCalls, sWord, sPart, sState, sPosition, drawn,
                   genVars, loopVars, clzVars>>

\* The ways a default construction ends in an exception.
Failed == {"failed", "failedOpen"}

\* The constructor releasing nothing when rd() throws
SeedFailKeepLock(t) ==
    /\ spc[t] = "seeding"
    /\ sWord[t] < StateWords
    /\ spc' = [spc EXCEPT ![t] = "failed"]
    /\ UNCHANGED <<uintDigits, rngMutex, rdCalls, sWord, sPart, sState, sPosition,
                   drawn, genVars, loopVars, clzVars>>

\* A call of rd() in the loop body throws.  The constructor has no handler:
\* the exception leaves it, and the lock_guard, being destroyed on the way,
\* releases rngMutex.  The object is never constructed.
SeedFail(t) ==
    /\ spc[t] = "seeding"
    /\ sWord[t] < StateWords
    /\ rngMutex' = 0
    /\ spc' = [spc EXCEPT ![t] = "failed"]
    /\ UNCHANGED <<uintDigits, rdCalls, sWord, sPart, sState, sPosition, drawn,
                   genVars, loopVars, clzVars>>

\* The construction of the static std::random_device itself throws, in the
\* first constructor to get there: that is before the lock is taken, and
\* the next constructor constructs the device again.
SeedOpenFail(t) ==
    /\ spc[t] = "start"
    /\ \A u \in Threads : spc[u] \in {"start", "failedOpen"}
    /\ spc' = [spc EXCEPT ![t] = "failedOpen"]
    /\ UNCHANGED <<uintDigits, rngMutex, rdCalls, sWord, sPart, sState, sPosition,
                   drawn, genVars, loopVars, clzVars>>

\* ---------------------------------------------------------------------
\* The calls made and the specifications
\* ---------------------------------------------------------------------

\* std::numeric_limits<int>::max() and min(), as values of type int
IntMax == Hex64(0, 0, 32767, 65535)

IntMin == Hex64(65535, 65535, 32768, 0)

\* std::numeric_limits<unsigned int>::max()
UintMax == Hex64(0, 0, 65535, 65535)

\* std::numeric_limits<long long>::max() and min()
LongLongMax == Hex64(32767, 65535, 65535, 65535)

LongLongMin == Hex64(32768, 0, 0, 0)

\* The bounds getRandomUint64(maxValue) is called with.
Uint64Bounds == {Zero64, FromNat(2), FromNat(4), LargeLimit, Ones64}

\* <<T, maxValue>> of the calls getRandomUnsignedChar(maxValue), ...
IntMaxCalls ==
    {<<"unsigned char", FromNat(0)>>, <<"unsigned char", FromNat(2)>>,
     <<"unsigned char", FromNat(255)>>,
     <<"unsigned int", FromNat(2)>>, <<"unsigned int", UintMax>>,
     <<"unsigned long long", FromNat(2)>>, <<"unsigned long long", Ones64>>}

\* <<T, minValue, maxValue>> of the calls getRandomChar(minValue, maxValue),
\* ...: the ranges of the tests, the widest range of each type, a range
\* wider than the largest value of the signed types, and ranges that break
\* minValue < maxValue.
IntRangeCalls ==
    {<<"char", FromInt(1), FromInt(3)>>, <<"char", FromInt(-3), FromInt(-1)>>,
     <<"char", FromInt(-1), FromInt(1)>>, <<"char", FromInt(-128), FromInt(127)>>,
     <<"char", FromInt(3), FromInt(1)>>, <<"char", FromInt(2), FromInt(2)>>,
     <<"unsigned char", FromInt(1), FromInt(3)>>,
     <<"unsigned char", FromInt(0), FromInt(255)>>,
     <<"int", FromInt(1), FromInt(3)>>, <<"int", FromInt(-3), FromInt(-1)>>,
     <<"int", FromInt(-1), FromInt(1)>>, <<"int", FromInt(-2), IntMax>>,
     <<"int", IntMin, IntMax>>, <<"int", FromInt(5), FromInt(5)>>,
     <<"int", FromInt(1), FromInt(-1)>>,
     <<"unsigned int", FromInt(1), FromInt(3)>>, <<"unsigned int", Zero64, UintMax>>,
     <<"unsigned int", FromInt(3), FromInt(1)>>,
     <<"long long", FromInt(1), FromInt(3)>>, <<"long long", FromInt(-3), FromInt(-1)>>,
     <<"long long", FromInt(-1), FromInt(1)>>, <<"long long", FromInt(-2), LongLongMax>>,
     <<"long long", LongLongMin, LongLongMax>>, <<"long long", Zero64, Zero64>>,
     <<"unsigned long long", FromInt(1), FromInt(3)>>,
     <<"unsigned long long", Zero64, Ones64>>,
     <<"unsigned long long", FromInt(7), FromInt(7)>>}

\* <<T, maxValue>> of the calls getRandomFloat(maxValue), ...
FloatMaxCalls == {<<"float", 3>>, <<"double", 3>>}

\* <<T, minValue, maxValue>> of the calls getRandomFloat(minValue, maxValue), ...
FloatRangeCalls ==
    {<<"float", 1, 3>>, <<"float", -1, 1>>, <<"float", 3, 1>>, <<"float", 2, 2>>,
     <<"double", 1, 6>>, <<"double", 6, 1>>, <<"long double", 1, 6>>}

\* One generator and every kind of call on it.  (The build is one where
\* unsigned int has 32 bits.)
Init == GenInit /\ LoopInit /\ SeedInit /\ ClzInit /\ uintDigits = 32

Next ==
    \/ \E seed \in Seeds : Construct(1, seed)
    \/ \E seed \in Seeds : SetSeed(1, seed)
    \/ \E T \in IntTypes : GetRandomFull(1, T)
    \/ \E m \in Uint64Bounds : GetRandomUint64Max(1, m)
    \/ \E c \in IntMaxCalls : GetRandomIntMax(1, c[1], c[2])
    \/ \E c \in IntRangeCalls : GetRandomIntRange(1, c[1], c[2], c[3])
    \/ \E T \in FloatTypes : GetRandomFloat(1, T)
    \/ \E c \in FloatMaxCalls : GetRandomFloatMax(1, c[1], c[2])
    \/ \E c \in FloatRangeCalls : GetRandomFloatRange(1, c[1], c[2], c[3])

Spec == Init /\ [][Next]_vars

\* Two generators, constructed from a seed or from the state of the other,
\* and a few kinds of call on each.
PairSeeds == {TestSeed, CountSeed}

NextPair ==
    \/ \E i \in Inst, seed \in PairSeeds : Construct(i, seed)
    \/ \E i, j \in Inst : ConstructFromState(i, j)
    \/ \E i \in Inst : SetSeed(i, CountSeed)
    \/ \E i \in Inst : GetRandomFull(i, "uint64_t")
    \/ \E i \in Inst : GetRandomUint64Max(i, FromNat(2))
    \/ \E i \in Inst : GetRandomIntRange(i, "int", FromInt(-1), FromInt(1))

SpecPair == Init /\ [][NextPair]_vars

\* The rejection loop on any raw draws.  An accepted draw is possible at
\* every iteration; that it comes in the end is the fairness of the draws.
NextLoop ==
    \/ \E m \in LoopBounds : LoopCall(m)
    \/ \E raw \in RawSamples : LoopIterate(raw)
    \/ LoopReturn

SpecLoop == Init /\ [][NextLoop]_vars /\ SF_vars(LoopAccept)

\* Threads default-constructing generators, for each width of unsigned int.
InitSeed ==
    GenInit /\ LoopInit /\ SeedInit /\ ClzInit /\ uintDigits \in UintDigitsCases

NextSeed ==
    \/ \E t \in Threads : SeedLock(t)
    \/ \E t \in Threads : SeedDraw(t)
    \/ \E t \in Threads : SeedUnlock(t)

SpecSeed == InitSeed /\ [][NextSeed]_vars

\* The steps of the constructor of thread t when nothing throws.
SeedStep(t) == SeedLock(t) \/ SeedDraw(t) \/ SeedUnlock(t)

\* Threads default-constructing generators from a random device that may
\* throw.  Every thread is scheduled: a step of its constructor that stays
\* possible is taken.
NextSeedFail ==
    \/ \E t \in Threads : SeedLock(t)
    \/ \E t \in Threads : SeedDraw(t)
    \/ \E t \in Threads : SeedUnlock(t)
    \/ \E t \in Threads : SeedFail(t)
    \/ \E t \in Threads : SeedOpenFail(t)

SpecSeedFail ==
    InitSeed /\ [][NextSeedFail]_vars /\ \A t \in Threads : WF_vars(SeedStep(t))

\* countLeadingZeros64 applied to one word, in one of its variants.
InitClz ==
    /\ GenInit /\ LoopInit /\ SeedInit /\ uintDigits = 32
    /\ cVariant = "none"
    /\ cIn \in ClzInputs
    /\ cOut = 0

NextClz == \E variant \in ClzVariants : ClzApply(variant)

SpecClz == InitClz /\ [][NextClz]_vars

\* One generator followed through many draws, so that the position goes
\* round the 16 words: raw draws, with at most one other call (setSeed, a
\* bounded draw, a floating-point draw) somewhere among them.
MaxSteps == 17

StepSeeds == Seeds \cup {OnesSeed, TopBitSeed}

\* rng.getRandomUint64()
RawCall == CallOf("full", "uint64_t", Zero64, Zero64, 0, 0)

StepCanCall == alive[1] = "live" /\ Len(hist[1]) < MaxSteps

\* All the calls made so far are raw draws.
OnlyRawCalls == \A k \in 1..Len(hist[1]) : hist[1][k] = RawCall

StepRaw ==
    /\ StepCanCall
    /\ Finish(1, RawCall, getRandomFull("uint64_t", state[1], position[1]))

StepSetSeed(seed) ==
    /\ StepCanCall
    /\ OnlyRawCalls
    /\ Finish(1, [CallOf("setSeed", "none", Zero64, Zero64, 0, 0) EXCEPT !.seed = seed],
              Outcome(FALSE, Zero64, seed, position[1], 0))

StepUint64Max(maxValue) ==
    /\ StepCanCall
    /\ OnlyRawCalls
    /\ Finish(1, CallOf("uint64Max", "uint64_t", Zero64, maxValue, 0, 0),
              getRandomUint64Max(state[1], position[1], maxValue))

StepFloat(T) ==
    /\ StepCanCall
    /\ OnlyRawCalls
    /\ Finish(1, CallOf("float", T, Zero64, Zero64, 0, 0),
              getRandomFloatType(T, state[1], position[1]))

NextStep ==
    \/ \E seed \in StepSeeds : Construct(1, seed)
    \/ StepRaw
    \/ \E seed \in StepSeeds : StepSetSeed(seed)
    \/ \E m \in {FromNat(2), LargeLimit} : StepUint64Max(m)
    \/ StepFloat("double")

SpecStep == Init /\ [][NextStep]_vars

\* ---------------------------------------------------------------------
\* Properties
\* ---------------------------------------------------------------------

\* The last call made and what it returned.
Called == last.inst # 0

LastCall == hist[last.inst][Len(hist[last.inst])]

LastResult == res[last.inst][Len(res[last.inst])]

\* The call is getRandomUint64(), the raw 64-bit draw.
IsRawDraw(c) == c.op = "full" /\ c.type = "uint64_t"

\* C1: a generator constructed from getState() of a generator G returns,
\* draw after draw, the raw draws G returns from that point onward.
ReplayFromState ==
    \A i \in Inst :
        forkedAt[i][1] # 0 =>
            LET j == forkedAt[i][1]
                n == forkedAt[i][2]
                k == Len(hist[i])
            IN  (/\ Len(hist[j]) >= n + k
                 /\ \A m \in 1..k : IsRawDraw(hist[i][m]) /\ IsRawDraw(hist[j][n + m]))
                    => res[i] = SubSeq(res[j], n + 1, n + k)

\* C2: after setSeed(seed) the state is seed and the position is 0.
SetSeedResets ==
    (Called /\ LastCall.op = "setSeed") =>
        /\ state[last.inst] = LastCall.seed
        /\ position[last.inst] = 0

IntRangeWithinBounds ==
    (Called /\ LastCall.op = "intRange" /\ ~LastResult.aborted) =>
        /\ ~LessT(LastCall.type, LastResult.value, LastCall.a)
        /\ ~LessT(LastCall.type, LastCall.b, LastResult.value)

\* C5: a single-bound draw that returns, returns a value x with
\* 0 <= x <= maxValue.
SingleBoundWithinBounds ==
    (Called /\ LastCall.op \in {"uint64Max", "intMax"} /\ ~LastResult.aborted) =>
        /\ ~LessU(LastResult.value, Zero64)
        /\ ~LessU(LastCall.b, LastResult.value)

\* Two draws with the bound 2 returned the one bound and then the other:
\* 0, then 2.
SingleBoundWitness ==
    /\ Len(hist[1]) = 2
    /\ \A m \in 1..2 :
          /\ hist[1][m].op \in {"uint64Max", "intMax"}
          /\ hist[1][m].b = FromNat(2)
          /\ ~res[1][m].aborted
    /\ res[1][1].value = Zero64
    /\ res[1][2].value = FromNat(2)

\* The call breaks the precondition of an integer draw: minValue >= maxValue
\* for two bounds, maxValue = 0 for one.
BreaksIntPrecondition(c) ==
    \/ c.op = "intRange" /\ ~LessT(c.type, c.a, c.b)
    \/ c.op \in {"uint64Max", "intMax"} /\ c.b = Zero64

\* C7: an integer draw that breaks its precondition ends in a failed
\* assertion before any raw draw: no value is returned and state and
\* position are what they were.
PreconditionFailsFast ==
    (Called /\ BreaksIntPrecondition(LastCall)) =>
        /\ LastResult.aborted
        /\ alive[last.inst] = "aborted"
        /\ last.draws = 0
        /\ state[last.inst] = last.preState
        /\ position[last.inst] = last.prePosition

\* After a draw that moved the position, a two-bound draw with
\* minValue > maxValue failed its assertion.
PreconditionWitness ==
    /\ Called
    /\ Len(hist[last.inst]) = 2
    /\ LastCall.op = "intRange"
    /\ LessT(LastCall.type, LastCall.b, LastCall.a)
    /\ LastResult.aborted
    /\ position[last.inst] # 0

\* C8: a floating-point draw between two bounds with minValue >= maxValue
\* ends in a failed assertion: it returns no value.
FloatRangeFailsFast ==
    (Called /\ LastCall.op = "floatRange" /\ LastCall.fa >= LastCall.fb) =>
        LastResult.aborted

\* A call of the loop is under way: leadingZeros is computed.
InLoopCall == lpc \in {"loop", "done"}

\* The bound is below 2^TopBits, so that the shifted draw is made of no
\* more than the TopBits highest bits of the raw draw.
SmallBounds == {FromNat(n) : n \in TopValues \ {0}}

SmallValue(w) == CHOOSE n \in TopValues : FromNat(n) = w

\* The values of the TopBits highest bits for which the shifted draw is v,
\* whatever the bits below them.
TopValuesGiving(v, leadingZeros) ==
    {t \in TopValues :
        \A fill \in Fills : Shr64(RawOf(t, fill), leadingZeros) = FromNat(v)}

\* The word a with bit b (1 the lowest) inverted.
FlipBit(a, b) == Word([i \in Bit |-> IF i = b THEN 1 - a[i] ELSE a[i]])

\* C6: no modulo bias.  Every v in [0, maxValue] is the shifted value of
\* the same number of raw draws: for a bound below 2^TopBits, of the draws
\* of 2^(leadingZeros - (64 - TopBits)) values of the TopBits highest bits,
\* which is 2^leadingZeros draws; and in general the shifted value of a
\* draw changes with exactly the bits above the leadingZeros lowest, so
\* that the draws with one shifted value are 2^leadingZeros.  A draw is
\* rejected exactly when its shifted value is greater than maxValue.
NoModuloBias ==
    InLoopCall =>
        /\ (lMax \in SmallBounds /\ lDraws = 0) =>
              \A v \in 0..SmallValue(lMax) :
                  Cardinality(TopValuesGiving(v, lZeros))
                      = Pow2(lZeros - (WordBits - TopBits))
        /\ \A b \in Bit :
              (Shr64(FlipBit(lRaw, b), lZeros) = Shr64(lRaw, lZeros)) <=> (b <= lZeros)
        /\ lDraws > 0 =>
              /\ lRandomInt = Shr64(lRaw, lZeros)
              /\ (lpc = "loop") <=> LessU(lMax, lRandomInt)

\* With the bound 4 of the uniformity test, a draw was rejected and the
\* next one was accepted with the value 4.
NoModuloBiasWitness ==
    /\ lpc = "done"
    /\ lMax = FromNat(4)
    /\ lDraws = 2
    /\ lRandomInt = FromNat(4)

\* The draws whose shifted value is accepted.
AcceptedSamples ==
    {raw \in RawSamples : ~Rejected(Shr64(raw, lZeros), lMax)}

\* C9: the rejection loop terminates.  On entry to the loop, with the
\* leadingZeros the call computed, at least half the draws are accepted,
\* among them every draw whose highest bit is clear; and a call that is in
\* the loop leaves it.
LoopTerminates ==
    /\ []((lpc = "loop" /\ lDraws = 0) =>
            /\ 2 * Cardinality(AcceptedSamples) >= Cardinality(RawSamples)
            /\ \A raw \in RawSamples : raw[WordBits] = 0 => raw \in AcceptedSamples)
    /\ (lpc = "loop") ~> (lpc = "done")

\* With the bound of test_large_uniform, draws were rejected and then one
\* was accepted.
LoopTerminatesWitness ==
    /\ lpc = "done"
    /\ lMax = LargeLimit
    /\ lDraws = MaxLoopDraws
    /\ lRandomInt[WordBits] = 1

\* The numbers in the sequence q.
Range(q) == {q[k] : k \in 1..Len(q)}

\* C10: the seeding is mutually exclusive.  No two threads are inside the
\* seeding loop; the outputs of rd() a thread took are consecutive outputs
\* of the device; and no output went to two threads.
SeedingExclusive ==
    /\ Cardinality({t \in Threads : spc[t] = "seeding"}) <= 1
    /\ \A t \in Threads :
          \A k \in 1..(Len(drawn[t]) - 1) : drawn[t][k + 1] = drawn[t][k] + 1
    /\ \A t, u \in Threads :
          t # u => Range(drawn[t]) \cap Range(drawn[u]) = {}

\* Every thread has constructed its generator, two outputs of a 32-bit
\* device to the word.
SeedingWitness ==
    /\ uintDigits = 32
    /\ \A t \in Threads :
          /\ spc[t] = "done"
          /\ Len(drawn[t]) = 2 * StateWords
    /\ drawn[2][1] = 1
    /\ drawn[1][1] = 2 * StateWords + 1

\* C11: a default construction in which the random device throws ends
\* there: it does not hold the mutex afterwards and takes no further step
\* (no retry); and every construction ends, whatever happened to the
\* others: completed, unless the device threw in it.
SeedFailureReleases ==
    /\ [](\A t \in Threads : spc[t] \in Failed => rngMutex # t)
    /\ [][\A t \in Threads :
            spc[t] \in Failed =>
                /\ spc'[t] = spc[t]
                /\ drawn'[t] = drawn[t]
                /\ sState'[t] = sState[t]]_vars
    /\ <>(\A t \in Threads : spc[t] \in Failed \cup {"done"})

\* The device threw in the constructor of thread 1 after it had given it
\* outputs, and thread 2 then took the lock and completed.
SeedFailureWitness ==
    /\ spc[1] = "failed"
    /\ Len(drawn[1]) > 0
    /\ spc[2] = "done"
    /\ Len(drawn[2]) > 0
    /\ drawn[2][1] > drawn[1][Len(drawn[1])]

\* C12: the floating-point draw without arguments takes one raw draw r and
\* returns (r >> (64 - m)) * 2^(-m), m the digits of T less one.  The
\* integer r >> (64 - m) is below 2^m: it converts to T exactly, and its
\* product by epsilon = 2^(-m) is a multiple of epsilon in [0, 1).
FloatDrawInUnitInterval ==
    (Called /\ LastCall.op = "float") =>
        LET m == FloatDigits(LastCall.type) - 1
            r == xorshift1024(last.preState, last.prePosition)
        IN  /\ ~LastResult.aborted
            /\ last.draws = 1
            /\ state[last.inst] = r.state
            /\ position[last.inst] = r.position
            /\ LastResult.value = Shr64(r.value, WordBits - m)
            /\ LastResult.real = [digits |-> m, scale |-> 1, offset |-> 0]
            /\ \A i \in Bit : i > m => LastResult.value[i] = 0

\* After a draw that moved the position, a draw of type float returned a
\* value of at least one half: the highest of the m bits kept is set.
FloatDrawWitness ==
    /\ Called
    /\ Len(hist[last.inst]) = 2
    /\ LastCall.op = "float"
    /\ LastCall.type = "float"
    /\ LastResult.value[FloatDigits("float") - 1] = 1
    /\ position[last.inst] = 2

\* The zero bits of w above its highest set bit.
LeadingZeros(w) == Cardinality({i \in Bit : \A j \in i..WordBits : w[j] = 0})

\* C13: each variant of countLeadingZeros64 returns the number of leading
\* zero bits of a nonzero word.
ClzCountsLeadingZeros ==
    (cVariant # "none" /\ cIn # Zero64) => cOut = LeadingZeros(cIn)

\* At least one of the 16 words of st is not zero.
NonZeroState(st) == \E w \in WordIndex : st[w] # Zero64

\* C14: a generator that was just constructed from a seed, or just given
\* one by setSeed, has a state word that is not zero.
SeedingAvoidsZeroState ==
    /\ \A i \in Inst :
          (alive[i] = "live" /\ hist[i] = <<>>) => NonZeroState(state[i])
    /\ (Called /\ LastCall.op = "setSeed") => NonZeroState(state[last.inst])

\* C15 as stated: a default construction makes no more than 16 calls of
\* the random device, one for each state word.
SeedCallsAtMostSixteen ==
    \A t \in Threads : Len(drawn[t]) <= StateWords

\* C15, amended: a default construction calls the random device only
\* while it holds the mutex, and no more than 16 times where unsigned int
\* has 64 digits, 32 times where it has 32 and 64 times where it has 16;
\* a completed construction made exactly that many calls.
SeedCallsBounded ==
    LET most == CASE uintDigits = 64 -> StateWords
                  [] uintDigits = 32 -> 2 * StateWords
                  [] OTHER -> 4 * StateWords
    IN  \A t \in Threads :
            /\ Len(drawn[t]) <= most
            /\ spc[t] = "start" => Len(drawn[t]) = 0
            /\ spc[t] = "seeding" => rngMutex = t
            /\ spc[t] = "done" => Len(drawn[t]) = most

\* With an unsigned int of 16 digits a construction has completed, four
\* calls to the word, and with the other thread yet to start.
SeedCallsWitness ==
    /\ uintDigits = 16
    /\ spc[1] = "done"
    /\ Len(drawn[1]) = 4 * StateWords
    /\ spc[2] = "start"

\* C16: the assembly of the state words.  No bit of a word is ever one
\* that two outputs were or-ed into; and in a completed construction bit i
\* of word w is a bit of one output of the device: with k = 64 / digits
\* outputs to the word, of output number (i - 1) / digits (from 0) of the
\* k outputs taken for w, and bit ((i - 1) mod digits) + 1 of it.  The
\* 64 bits of a word are then 64 different bits of the device, each free
\* to be 0 or 1.
WordAssembly ==
    \A t \in Threads :
        /\ \A w \in WordIndex : \A i \in Bit : sState[t][w][i] # MixedBit
        /\ spc[t] = "done" =>
              LET k == WordBits \div uintDigits
              IN  \A w \in WordIndex : \A i \in Bit :
                      sState[t][w][i] =
                          <<drawn[t][w * k + ((i - 1) \div uintDigits) + 1],
                            ((i - 1) % uintDigits) + 1>>

\* With an unsigned int of 16 digits both threads have constructed their
\* generators, thread 2 first: the highest bit of its last word is the
\* highest bit of output 64, and bit 17 of the first word of thread 1 is
\* the lowest bit of output 66.
WordAssemblyWitness ==
    /\ uintDigits = 16
    /\ spc[1] = "done"
    /\ spc[2] = "done"
    /\ sState[2][StateWords - 1][WordBits] = <<4 * StateWords, 16>>
    /\ sState[1][0][17] = <<4 * StateWords + 2, 1>>

\* Bit i of w, 0 when there is no such bit: what a truncating shift
\* brings in.
BitAt(w, i) == IF i \in Bit THEN w[i] ELSE 0

\* The sum, modulo 2^64, of a * 2^(j - 1) over the bits j of lo..hi set in
\* b: the product a * b by shifts and additions when lo..hi is 1..64.
RECURSIVE SumOfShifts(_, _, _, _)
SumOfShifts(a, b, lo, hi) ==
    IF lo = hi
    THEN IF b[lo] = 1 THEN Shl64(a, lo - 1) ELSE Zero64
    ELSE LET mid == (lo + hi) \div 2
         IN  CHOOSE r \in {IF low = Zero64 THEN high
                            ELSE IF high = Zero64 THEN low
                            ELSE Add64(low, high) :
                               low  \in {SumOfShifts(a, b, lo, mid)},
                               high \in {SumOfShifts(a, b, mid + 1, hi)}} : TRUE

\* C17: the position is in [0, 16) in every state; and a raw draw from
\* (state, p) moves the position to q = (p + 1) mod 16, leaves every word
\* but state[q] as it was, stores in state[q] the word whose bit i is
\* s0[i] ^ s0[i + 30] ^ t[i] ^ t[i + 11], with t[i] = s1[i] ^ s1[i - 31],
\* s0 the old state[p] and s1 the old state[q], and returns that word
\* times 1181783497276652981 modulo 2^64.
XorshiftStep ==
    /\ \A i \in Inst : position[i] \in WordIndex
    /\ (Called /\ LastCall = RawCall) =>
          LET p  == last.prePosition
              q  == (p + 1) % 16
              s0 == last.preState[p]
              s1 == last.preState[q]
              t  == [i \in Bit |-> (s1[i] + BitAt(s1, i - 31)) % 2]
              new == Word([i \in Bit |->
                        (s0[i] + BitAt(s0, i + 30) + t[i] + BitAt(t, i + 11)) % 2])
          IN  /\ position[last.inst] = q
              /\ state[last.inst][q] = new
              /\ \A w \in WordIndex \ {q} :
                    state[last.inst][w] = last.preState[w]
              /\ LastResult.value = SumOfShifts(new, Multiplier, 1, WordBits)
              /\ ~LastResult.aborted
              /\ last.draws = 1

\* The sixteenth raw draw of a generator: from position 15 to position 0.
XorshiftStepWitness ==
    /\ Called
    /\ LastCall = RawCall
    /\ Len(hist[1]) = 16
    /\ OnlyRawCalls
    /\ last.prePosition = 15
    /\ position[1] = 0
    /\ origin[1] = TestSeed

\* C18: a call that draws keeps the state all-zero or not all-zero as it
\* was: a state with a word that is not zero still has one after the call,
\* whatever the operation and however many raw draws it makes, and the
\* all-zero state is left all-zero; a raw draw from the all-zero state
\* returns 0.
ZeroStatePreserved ==
    (Called /\ LastCall.op # "setSeed") =>
        /\ NonZeroState(state[last.inst]) <=> NonZeroState(last.preState)
        /\ (LastCall = RawCall /\ ~NonZeroState(last.preState)) =>
              /\ LastResult.value = Zero64
              /\ ~LastResult.aborted

\* A raw draw from the all-zero state, that returned 0, then setSeed with
\* the seed of one bit, then a raw draw that reads the only word that is
\* not zero as state1 and overwrites it.
ZeroStateWitness ==
    /\ Called
    /\ Len(hist[1]) = 3
    /\ origin[1] = ZeroSeed
    /\ hist[1][1] = RawCall
    /\ res[1][1].value = Zero64
    /\ hist[1][2].op = "setSeed"
    /\ hist[1][2].seed = TopBitSeed
    /\ hist[1][3] = RawCall
    /\ last.preState = TopBitSeed
    /\ last.prePosition = 1
    /\ state[1][2] # TopBitSeed[2]
    /\ NonZeroState(state[1])

====
